---- MODULE Spec2Model ----
(***************************************************************************)
(* Fast-field dynamic reader (src/src/fastfield/reader.rs) and segment     *)
(* meta record (src/src/core/segment_meta.rs).                             *)
(*                                                                         *)
(* A byte region is a sequence of units.  One unit stands for one field    *)
(* of the framing (a tag, a u64 header field, a u8 bit width) or for one   *)
(* bit of packed data.  u64 arithmetic is done modulo 2^ValBits.           *)
(***************************************************************************)
EXTENDS Integers, Sequences, FiniteSets, TLC

\* ------------------------------------------------------------------ bounds
ValBits == 2
\* width of a u64 in the model: values are 0 .. 2^ValBits - 1

MaxLen == 3
\* longest sequence handed to From<Vec<Item>>

MaxSmallLen == 2
\* longest sequence behind a stored region that is corrupted, or shared by threads

MaxUnit == 4
\* a corrupted unit is overwritten with one of 0 .. MaxUnit

BlockSize == 2
\* values per block of the blockwise linear codec

MaxReaders == 2
\* the reader and its clones

NumThreads == 2

DocBits == 2
\* width of a u32 in the model

MaxOpstamp == 2

NumSegmentIds == 2

\* ------------------------------------------------------------ arithmetic
RECURSIVE Pow2(_)
Pow2(n) == IF n <= 0 THEN 1 ELSE 2 * Pow2(n - 1)

Modulus == Pow2(ValBits)
U64 == 0 .. (Modulus - 1)
SignBit == Modulus \div 2
Item == (0 - SignBit) .. (SignBit - 1)

\* the least, the zero and the greatest domain value
SampleItems == {0 - SignBit, 0, SignBit - 1}

Wrap(x) == x % Modulus

MinOf(S) == CHOOSE x \in S : \A y \in S : x <= y
MaxOf(S) == CHOOSE x \in S : \A y \in S : y <= x
Range(s) == {s[i] : i \in 1 .. Len(s)}

RECURSIVE Gcd2(_, _)
Gcd2(a, b) == IF b = 0 THEN a ELSE Gcd2(b, a % b)

RECURSIVE GcdSeq(_)
GcdSeq(s) == IF s = <<>> THEN 0 ELSE Gcd2(Head(s), GcdSeq(Tail(s)))

RECURSIVE Concat(_)
Concat(ss) == IF ss = <<>> THEN <<>> ELSE Head(ss) \o Concat(Tail(ss))

\* number of bits needed to store every value of 0 .. amplitude
RECURSIVE NumBits(_)
NumBits(amplitude) == IF amplitude <= 0 THEN 0 ELSE 1 + NumBits(amplitude \div 2)

\* w bits of v, least significant first
RECURSIVE ToBits(_, _)
ToBits(v, w) == IF w = 0 THEN <<>> ELSE <<v % 2>> \o ToBits(v \div 2, w - 1)

\* a packed unit is read as one bit
RECURSIVE FromBits(_)
FromBits(bits) == IF bits = <<>> THEN 0 ELSE (Head(bits) % 2) + 2 * FromBits(Tail(bits))

\* the idx-th (0-based) w-bit entry of data; no bits are read when w = 0
BitsInRange(data, idx, w) == w = 0 \/ (idx + 1) * w <= Len(data)
ReadPacked(data, idx, w) ==
    IF w = 0 THEN 0 ELSE FromBits(SubSeq(data, idx * w + 1, (idx + 1) * w))

SeqsUpTo(S, n) == UNION {[1 .. k -> S] : k \in 0 .. n}

\* ---------------------------------------------------------- value mapping
\* signed integers: offset by the domain's minimum representable value
to_u64(x) == Wrap(x + SignBit)
from_u64(u) == u - SignBit

\* --------------------------------------------------------------- codec tag
BitpackedCode == 1
LinearCode == 2
BlockwiseLinearCode == 3
GcdCode == 4

Tags == {"Bitpacked", "Linear", "BlockwiseLinear", "Gcd"}
Codecs == {"Bitpacked", "Linear", "BlockwiseLinear"}

to_code(tag) ==
    CASE tag = "Bitpacked" -> BitpackedCode
      [] tag = "Linear" -> LinearCode
      [] tag = "BlockwiseLinear" -> BlockwiseLinearCode
      [] tag = "Gcd" -> GcdCode

NoReader == [kind |-> "None"]
Fail(kind) == [ok |-> FALSE, err |-> kind, tag |-> "None", rest |-> <<>>, reader |-> NoReader]

\* FastFieldCodecType::deserialize(&mut bytes): consumes the leading tag unit
FastFieldCodecType_deserialize(bytes) ==
    IF bytes = <<>> THEN Fail("DataCorruption")
    ELSE LET code == Head(bytes) IN
         IF code \in {BitpackedCode, LinearCode, BlockwiseLinearCode, GcdCode}
         THEN [ok |-> TRUE, err |-> "None",
               tag |-> CHOOSE t \in Tags : to_code(t) = code,
               rest |-> Tail(bytes), reader |-> NoReader]
         ELSE Fail("DataCorruption")

Ok(r) == [ok |-> TRUE, err |-> "None", reader |-> r]
Err(kind) == [ok |-> FALSE, err |-> kind, reader |-> NoReader]
Val(v) == [ok |-> TRUE, val |-> v]
Panic == [ok |-> FALSE, val |-> 0]

\* ---------------------------------------------------------- bitpacked codec
\* Payload(Bitpacked) ::= Min Max BitWidth NumVals PackedBits
BitpackedCodec_serialize(vals) ==
    LET lo == IF vals = <<>> THEN 0 ELSE MinOf(Range(vals))
        hi == IF vals = <<>> THEN 0 ELSE MaxOf(Range(vals))
        w == NumBits(hi - lo)
    IN <<lo, hi, w, Len(vals)>>
         \o Concat([i \in 1 .. Len(vals) |-> ToBits(vals[i] - lo, w)])

BitpackedCodec_open_from_bytes(bytes) ==
    IF Len(bytes) < 4 THEN Err("DataCorruption")
    ELSE LET w == bytes[3]
             n == Wrap(bytes[4])
             data == SubSeq(bytes, 5, Len(bytes))
         IN IF w > ValBits \/ Len(data) < n * w THEN Err("DataCorruption")
            ELSE Ok([kind |-> "Bitpacked", min_value |-> Wrap(bytes[1]),
                     max_value |-> Wrap(bytes[2]), num_bits |-> w,
                     num_vals |-> n, data |-> data])

BitpackedReader_get_val(r, idx) ==
    IF BitsInRange(r.data, idx, r.num_bits)
    THEN Val(Wrap(r.min_value + ReadPacked(r.data, idx, r.num_bits)))
    ELSE Panic

\* ------------------------------------------------------------- linear codec
\* line through the first and the last value, rounded to the nearest integer
Fitted(first, last, n, i) ==
    IF n <= 1 THEN first
    ELSE first + ((2 * (last - first) * i + (n - 1)) \div (2 * (n - 1)))

\* fit parameters, residual bit width and packed residuals of one run of values;
\* the residuals are shifted to a non-negative range in u64 arithmetic
LinearFit(vals) ==
    LET n == Len(vals)
        first == IF n = 0 THEN 0 ELSE vals[1]
        last == IF n = 0 THEN 0 ELSE vals[n]
        resid == [i \in 1 .. n |-> vals[i] - Fitted(first, last, n, i - 1)]
        offset == IF n = 0 THEN 0 ELSE MinOf(Range(resid))
        shifted == [i \in 1 .. n |-> Wrap(resid[i] - offset)]
        w == IF n = 0 THEN 0 ELSE NumBits(MaxOf(Range(shifted)))
    IN [first |-> first, last |-> last, offset |-> Wrap(offset), num_bits |-> w,
        bits |-> Concat([i \in 1 .. n |-> ToBits(shifted[i], w)])]

\* Payload(Linear) ::= First Last Offset NumVals ResidualBitWidth Min Max PackedResiduals
LinearCodec_serialize(vals) ==
    LET f == LinearFit(vals)
        lo == IF vals = <<>> THEN 0 ELSE MinOf(Range(vals))
        hi == IF vals = <<>> THEN 0 ELSE MaxOf(Range(vals))
    IN <<f.first, f.last, f.offset, Len(vals), f.num_bits, lo, hi>> \o f.bits

LinearCodec_open_from_bytes(bytes) ==
    IF Len(bytes) < 7 THEN Err("DataCorruption")
    ELSE LET n == Wrap(bytes[4])
             w == bytes[5]
             data == SubSeq(bytes, 8, Len(bytes))
         IN IF w > ValBits \/ Len(data) < n * w THEN Err("DataCorruption")
            ELSE Ok([kind |-> "Linear", first |-> Wrap(bytes[1]), last |-> Wrap(bytes[2]),
                     offset |-> Wrap(bytes[3]), num_vals |-> n, num_bits |-> w,
                     min_value |-> Wrap(bytes[6]), max_value |-> Wrap(bytes[7]),
                     data |-> data])

LinearReader_get_val(r, idx) ==
    IF BitsInRange(r.data, idx, r.num_bits)
    THEN Val(Wrap(Fitted(r.first, r.last, r.num_vals, idx) + r.offset
                    + ReadPacked(r.data, idx, r.num_bits)))
    ELSE Panic

\* --------------------------------------------------- blockwise linear codec
NumBlocks(n, bs) == (n + bs - 1) \div bs
BlockLen(n, bs, b) == IF (b + 1) * bs <= n THEN bs ELSE n - b * bs
BlockVals(vals, bs, b) ==
    SubSeq(vals, b * bs + 1, b * bs + BlockLen(Len(vals), bs, b))

\* Payload(BlockwiseLinear) ::= BlockSize NumVals Min Max
\*                              (First Last Offset BitWidth)* PackedResidualBlocks
BlockwiseLinearCodec_serialize(vals) ==
    LET n == Len(vals)
        nb == NumBlocks(n, BlockSize)
        fit == [b \in 1 .. nb |-> LinearFit(BlockVals(vals, BlockSize, b - 1))]
        lo == IF vals = <<>> THEN 0 ELSE MinOf(Range(vals))
        hi == IF vals = <<>> THEN 0 ELSE MaxOf(Range(vals))
    IN <<BlockSize, n, lo, hi>>
         \o Concat([b \in 1 .. nb |->
                      <<fit[b].first, fit[b].last, fit[b].offset, fit[b].num_bits>>])
         \o Concat([b \in 1 .. nb |-> fit[b].bits])

\* bit offset at which block b (0-based) starts in the packed residuals
RECURSIVE BlockStart(_, _, _, _)
BlockStart(blocks, n, bs, b) ==
    IF b = 0 THEN 0
    ELSE BlockStart(blocks, n, bs, b - 1) + BlockLen(n, bs, b - 1) * blocks[b].num_bits

BlockwiseLinearCodec_open_from_bytes(bytes) ==
    IF Len(bytes) < 4 THEN Err("DataCorruption")
    ELSE LET bs == Wrap(bytes[1])
             n == Wrap(bytes[2])
         IN IF bs = 0 THEN Err("DataCorruption")
            ELSE LET nb == NumBlocks(n, bs) IN
                 IF Len(bytes) < 4 + 4 * nb THEN Err("DataCorruption")
                 ELSE LET blocks == [b \in 1 .. nb |->
                                        [first |-> Wrap(bytes[4 * b + 1]),
                                         last |-> Wrap(bytes[4 * b + 2]),
                                         offset |-> Wrap(bytes[4 * b + 3]),
                                         num_bits |-> bytes[4 * b + 4]]]
                          data == SubSeq(bytes, 5 + 4 * nb, Len(bytes))
                      IN IF (\E b \in 1 .. nb : blocks[b].num_bits > ValBits)
                            \/ Len(data) < BlockStart(blocks, n, bs, nb)
                         THEN Err("DataCorruption")
                         ELSE Ok([kind |-> "BlockwiseLinear", block_size |-> bs,
                                  num_vals |-> n, min_value |-> Wrap(bytes[3]),
                                  max_value |-> Wrap(bytes[4]), blocks |-> blocks,
                                  data |-> data])

BlockwiseLinearReader_get_val(r, idx) ==
    LET b == idx \div r.block_size
        off == idx % r.block_size
    IN IF b >= Len(r.blocks) THEN Panic
       ELSE LET blk == r.blocks[b + 1]
                start == BlockStart(r.blocks, r.num_vals, r.block_size, b)
                len == BlockLen(r.num_vals, r.block_size, b)
            IN IF blk.num_bits = 0
               THEN Val(Wrap(Fitted(blk.first, blk.last, len, off) + blk.offset))
               ELSE IF start + (off + 1) * blk.num_bits > Len(r.data) THEN Panic
               ELSE Val(Wrap(Fitted(blk.first, blk.last, len, off) + blk.offset
                              + FromBits(SubSeq(r.data, start + off * blk.num_bits + 1,
                                                start + (off + 1) * blk.num_bits))))

\* ------------------------------------------------------------ codec dispatch
Codec_serialize(codec, vals) ==
    CASE codec = "Bitpacked" -> BitpackedCodec_serialize(vals)
      [] codec = "Linear" -> LinearCodec_serialize(vals)
      [] codec = "BlockwiseLinear" -> BlockwiseLinearCodec_serialize(vals)

Codec_open_from_bytes(codec, bytes) ==
    CASE codec = "Bitpacked" -> BitpackedCodec_open_from_bytes(bytes)
      [] codec = "Linear" -> LinearCodec_open_from_bytes(bytes)
      [] codec = "BlockwiseLinear" -> BlockwiseLinearCodec_open_from_bytes(bytes)

\* ------------------------------------------------------------ GCD meta-codec
\* Payload(Gcd) ::= Tag(inner) Divisor Payload(inner)
Gcd_serialize(codec, vals) ==
    LET g0 == GcdSeq(vals)
        g == IF g0 = 0 THEN 1 ELSE g0
    IN <<to_code(codec), g>> \o Codec_serialize(codec, [i \in 1 .. Len(vals) |-> vals[i] \div g])

\* open_gcd_from_bytes::<Codec>(bytes): the divisor, then the inner codec's payload
open_gcd_from_bytes(codec, bytes) ==
    IF bytes = <<>> THEN Err("DataCorruption")
    ELSE LET inner == Codec_open_from_bytes(codec, Tail(bytes)) IN
         IF ~inner.ok THEN inner
         ELSE Ok([kind |-> "Gcd", gcd |-> Wrap(Head(bytes)), inner |-> inner.reader])

\* ------------------------------------- Column contract of the u64 codec readers
RECURSIVE Column_get_val(_, _)
Column_get_val(r, idx) ==
    CASE r.kind = "Bitpacked" -> BitpackedReader_get_val(r, idx)
      [] r.kind = "Linear" -> LinearReader_get_val(r, idx)
      [] r.kind = "BlockwiseLinear" -> BlockwiseLinearReader_get_val(r, idx)
      [] r.kind = "Gcd" ->
           LET v == Column_get_val(r.inner, idx) IN
           IF v.ok THEN Val(Wrap(v.val * r.gcd)) ELSE Panic

Column_min_value(r) ==
    IF r.kind = "Gcd" THEN Wrap(r.inner.min_value * r.gcd) ELSE r.min_value

Column_max_value(r) ==
    IF r.kind = "Gcd" THEN Wrap(r.inner.max_value * r.gcd) ELSE r.max_value

Column_num_vals(r) ==
    IF r.kind = "Gcd" THEN r.inner.num_vals ELSE r.num_vals

\* --------------------------------------------------------- write pipeline
\* the framed bytes of one column: the outer tag, then the payload
FastFieldsWriter_serialize(vals, codec, use_gcd) ==
    IF use_gcd THEN <<GcdCode>> \o Gcd_serialize(codec, vals)
    ELSE <<to_code(codec)>> \o Codec_serialize(codec, vals)

\* ------------------------------------------------ FastFieldReaderCodecWrapper
\* impl From<CodecReader>: the codec reader and a PhantomData marker
Wrapper_from(reader) == [reader |-> reader]

Wrapper_get_u64(w, idx) ==
    LET data == Column_get_val(w.reader, idx) IN
    IF data.ok THEN Val(from_u64(data.val)) ELSE Panic

Wrapper_get_val(w, idx) == Wrapper_get_u64(w, idx)
\* fault injection: the minimum is returned without the value mapping
Wrapper_min_value_raw(w) == Column_min_value(w.reader)

Wrapper_min_value(w) == from_u64(Column_min_value(w.reader))
Wrapper_max_value(w) == from_u64(Column_max_value(w.reader))
Wrapper_num_vals(w) == Column_num_vals(w.reader)

\* ----------------------------------------------------- DynamicFastFieldReader
Variants == {"Bitpacked", "Linear", "BlockwiseLinear",
             "BitpackedGCD", "LinearGCD", "BlockwiseLinearGCD"}

\* one variant of the enum around a wrapped codec reader; `?` returns the failure
Variant(name, opened) ==
    IF opened.ok THEN Ok([variant |-> name, wrapper |-> Wrapper_from(opened.reader)])
    ELSE Err(opened.err)

\* fault injection: the nested-Gcd arm is missing, a nested Gcd falls to the Bitpacked arm
open_from_id_nested(bytes, codec_type) ==
    CASE codec_type = "Bitpacked" ->
           Variant("Bitpacked", BitpackedCodec_open_from_bytes(bytes))
      [] codec_type = "Linear" ->
           Variant("Linear", LinearCodec_open_from_bytes(bytes))
      [] codec_type = "BlockwiseLinear" ->
           Variant("BlockwiseLinear", BlockwiseLinearCodec_open_from_bytes(bytes))
      [] codec_type = "Gcd" ->
           LET inner == FastFieldCodecType_deserialize(bytes) IN
           IF ~inner.ok THEN Err(inner.err)
           ELSE CASE inner.tag = "Linear" ->
                       Variant("LinearGCD", open_gcd_from_bytes("Linear", inner.rest))
                  [] inner.tag = "BlockwiseLinear" ->
                       Variant("BlockwiseLinearGCD",
                               open_gcd_from_bytes("BlockwiseLinear", inner.rest))
                  [] OTHER ->
                       Variant("BitpackedGCD", open_gcd_from_bytes("Bitpacked", inner.rest))

\* fault injection: the Linear arm is a copy of the BlockwiseLinear arm
open_from_id_swapped(bytes, codec_type) ==
    CASE codec_type = "Bitpacked" ->
           Variant("Bitpacked", BitpackedCodec_open_from_bytes(bytes))
      [] codec_type = "Linear" ->
           Variant("BlockwiseLinear", BlockwiseLinearCodec_open_from_bytes(bytes))
      [] codec_type = "BlockwiseLinear" ->
           Variant("BlockwiseLinear", BlockwiseLinearCodec_open_from_bytes(bytes))
      [] codec_type = "Gcd" ->
           LET inner == FastFieldCodecType_deserialize(bytes) IN
           IF ~inner.ok THEN Err(inner.err)
           ELSE CASE inner.tag = "Bitpacked" ->
                       Variant("BitpackedGCD", open_gcd_from_bytes("Bitpacked", inner.rest))
                  [] inner.tag = "Linear" ->
                       Variant("LinearGCD", open_gcd_from_bytes("Linear", inner.rest))
                  [] inner.tag = "BlockwiseLinear" ->
                       Variant("BlockwiseLinearGCD",
                               open_gcd_from_bytes("BlockwiseLinear", inner.rest))
                  [] inner.tag = "Gcd" -> Err("DataCorruption")

open_from_id(bytes, codec_type) ==
    CASE codec_type = "Bitpacked" ->
           Variant("Bitpacked", BitpackedCodec_open_from_bytes(bytes))
      [] codec_type = "Linear" ->
           Variant("Linear", LinearCodec_open_from_bytes(bytes))
      [] codec_type = "BlockwiseLinear" ->
           Variant("BlockwiseLinear", BlockwiseLinearCodec_open_from_bytes(bytes))
      [] codec_type = "Gcd" ->
           LET inner == FastFieldCodecType_deserialize(bytes) IN
           IF ~inner.ok THEN Err(inner.err)
           ELSE CASE inner.tag = "Bitpacked" ->
                       Variant("BitpackedGCD", open_gcd_from_bytes("Bitpacked", inner.rest))
                  [] inner.tag = "Linear" ->
                       Variant("LinearGCD", open_gcd_from_bytes("Linear", inner.rest))
                  [] inner.tag = "BlockwiseLinear" ->
                       Variant("BlockwiseLinearGCD",
                               open_gcd_from_bytes("BlockwiseLinear", inner.rest))
                  [] inner.tag = "Gcd" -> Err("DataCorruption")

\* a FileSlice: whether read_bytes succeeds, and the bytes it yields
FileSlice(readable, bytes) == [readable |-> readable, bytes |-> bytes]

\* fault injection: the outer tag is read but not consumed
open_keeps_tag(file) ==
    IF ~file.readable THEN Err("Io")
    ELSE LET codec_type == FastFieldCodecType_deserialize(file.bytes) IN
         IF ~codec_type.ok THEN Err(codec_type.err)
         ELSE open_from_id(file.bytes, codec_type.tag)

\* fault injection: an outer tag that does not deserialize is taken to be Bitpacked
open_lenient(file) ==
    IF ~file.readable THEN Err("Io")
    ELSE LET codec_type == FastFieldCodecType_deserialize(file.bytes) IN
         IF ~codec_type.ok
         THEN IF file.bytes = <<>> THEN Err(codec_type.err)
              ELSE open_from_id(Tail(file.bytes), "Bitpacked")
         ELSE open_from_id(codec_type.rest, codec_type.tag)

open(file) ==
    IF ~file.readable THEN Err("Io")
    ELSE LET codec_type == FastFieldCodecType_deserialize(file.bytes) IN
         IF ~codec_type.ok THEN Err(codec_type.err)
         ELSE open_from_id(codec_type.rest, codec_type.tag)

\* impl Column<Item> for DynamicFastFieldReader: every arm calls the wrapper
get_val(self, idx) ==
    CASE self.variant \in Variants -> Wrapper_get_val(self.wrapper, idx)

min_value(self) ==
    CASE self.variant \in Variants -> Wrapper_min_value(self.wrapper)

max_value(self) ==
    CASE self.variant \in Variants -> Wrapper_max_value(self.wrapper)

num_vals(self) ==
    CASE self.variant \in Variants -> Wrapper_num_vals(self.wrapper)

\* #[derive(Clone)]: the clone shares the bytes and copies the header scalars
\* fault injection: a hand-written clone that rebuilds the value as the first variant
clone_first_variant(self) == [self EXCEPT !.variant = "Bitpacked"]

clone(self) == self

\* impl From<Vec<Item>>: write vals through the pipeline into a RamDirectory,
\* then reopen the field's region; both unwrap() calls panic on failure
\* fault injection: the values are cast to u64 instead of mapped with to_u64
from_vec_cast(vals, codec, use_gcd) ==
    LET u64_vals == [i \in 1 .. Len(vals) |-> Wrap(vals[i])]
        field_file == FileSlice(TRUE, FastFieldsWriter_serialize(u64_vals, codec, use_gcd))
    IN open(field_file)

from_vec(vals, codec, use_gcd) ==
    LET u64_vals == [i \in 1 .. Len(vals) |-> to_u64(vals[i])]
        field_file == FileSlice(TRUE, FastFieldsWriter_serialize(u64_vals, codec, use_gcd))
    IN open(field_file)

\* ------------------------------------------------------------- SegmentMeta
U32Modulus == Pow2(DocBits)
U32 == 0 .. (U32Modulus - 1)
Opstamps == 0 .. MaxOpstamp
SegmentIds == 1 .. NumSegmentIds

\* Option<DeleteMeta>: <<>> is None, <<d>> is Some(d)
None == <<>>
Some(d) == <<d>>

new(segment_id) == [segment_id |-> segment_id, max_doc |-> 0, deletes |-> None]

id(m) == m.segment_id

num_deleted_docs(m) ==
    IF m.deletes = None THEN 0 ELSE m.deletes[1].num_deleted_docs

max_doc(m) == m.max_doc

\* u32 subtraction: panics with overflow checks, wraps without
num_docs(m, overflow_checks) ==
    LET d == max_doc(m) - num_deleted_docs(m) IN
    IF d >= 0 THEN Val(d)
    ELSE IF overflow_checks THEN Panic ELSE Val(d % U32Modulus)

delete_opstamp(m) ==
    IF m.deletes = None THEN None ELSE Some(m.deletes[1].opstamp)

has_deletes(m) == m.deletes # None

\* fault injection: the record is rebuilt from new(), dropping the delete information
set_max_doc_rebuilt(m, v) == [new(m.segment_id) EXCEPT !.max_doc = v]

set_max_doc(m, v) == [m EXCEPT !.max_doc = v]

set_delete_meta(m, n, opstamp) ==
    [m EXCEPT !.deletes = Some([num_deleted_docs |-> n, opstamp |-> opstamp])]

\* -------------------------------------------------------------------- state
VARIABLES
    vals,          \* the in-memory sequence of domain values handed to the pipeline
    codec,         \* the codec the write pipeline selects
    use_gcd,       \* whether the write pipeline wraps the codec in the GCD record
    file,          \* the FileSlice of the column: readable flag and bytes
    pristine,      \* the bytes are exactly what the write pipeline produced
    pc,            \* "init", "written", "opened", "failed"
    call,          \* the constructor call made: operation, tag and bytes arguments
    res,           \* what the constructor returned
    readers,       \* the live readers: the one returned and its clones
    out,           \* the last Column call and what it returned
    meta,          \* a SegmentMeta
    overflow_checks, \* build profile: whether integer overflow panics
    delete_called, \* set_delete_meta has been called on meta
    mlast,         \* the last SegmentMeta call and its arguments
    mout           \* what the last num_docs() call returned

rvars == <<vals, codec, use_gcd, file, pristine, pc, call, res, readers, out>>
mvars == <<meta, overflow_checks, delete_called, mlast, mout>>
vars == <<vals, codec, use_gcd, file, pristine, pc, call, res, readers, out,
          meta, overflow_checks, delete_called, mlast, mout>>

Threads == 1 .. NumThreads

NoCall == [op |-> "none", tag |-> "None", bytes |-> <<>>]
NoRes == Err("None")
NoOut == [op |-> "none", thread |-> 0, k |-> 0, idx |-> 0, ok |-> TRUE, val |-> 0]
NoMeta == [op |-> "new", a |-> 0, b |-> 0]
NoNumDocs == [called |-> FALSE, ok |-> TRUE, val |-> 0]

ReaderIdle ==
    /\ vals = <<>> /\ codec = "Bitpacked" /\ use_gcd = FALSE
    /\ file = FileSlice(TRUE, <<>>) /\ pristine = TRUE /\ pc = "init"
    /\ call = NoCall /\ res = NoRes /\ readers = <<>> /\ out = NoOut

MetaIdle ==
    /\ meta = new(1) /\ overflow_checks = TRUE /\ delete_called = FALSE
    /\ mlast = NoMeta /\ mout = NoNumDocs

\* ------------------------------------------- opening a stored byte region
\* a column of boundary values is written by the pipeline, then possibly corrupted
\* in storage, then opened
Init ==
    /\ vals \in SeqsUpTo(SampleItems, MaxSmallLen)
    /\ codec \in Codecs
    /\ use_gcd \in BOOLEAN
    /\ file = FileSlice(TRUE, <<>>) /\ pristine = TRUE /\ pc = "init"
    /\ call = NoCall /\ res = NoRes /\ readers = <<>> /\ out = NoOut
    /\ MetaIdle

\* the write pipeline stores the column
Serialize ==
    /\ pc = "init"
    /\ file' = FileSlice(TRUE, FastFieldsWriter_serialize(
                   [i \in 1 .. Len(vals) |-> to_u64(vals[i])], codec, use_gcd))
    /\ pc' = "written"
    /\ UNCHANGED <<vals, codec, use_gcd, pristine, call, res, readers, out>>
    /\ UNCHANGED mvars

\* storage corruption: one unit of the stored region is overwritten
Overwrite(pos, u) ==
    /\ pc = "written" /\ pristine /\ pos \in 1 .. Len(file.bytes)
    /\ file.bytes[pos] # u
    /\ file' = [file EXCEPT !.bytes[pos] = u]
    /\ pristine' = FALSE
    /\ UNCHANGED <<vals, codec, use_gcd, pc, call, res, readers, out>>
    /\ UNCHANGED mvars

\* storage corruption: the stored region is cut short
Truncate(len) ==
    /\ pc = "written" /\ pristine /\ len < Len(file.bytes)
    /\ file' = [file EXCEPT !.bytes = SubSeq(file.bytes, 1, len)]
    /\ pristine' = FALSE
    /\ UNCHANGED <<vals, codec, use_gcd, pc, call, res, readers, out>>
    /\ UNCHANGED mvars

\* storage failure: read_bytes() on the region will fail
Unreadable ==
    /\ pc = "written" /\ pristine
    /\ file' = [file EXCEPT !.readable = FALSE]
    /\ pristine' = FALSE
    /\ UNCHANGED <<vals, codec, use_gcd, pc, call, res, readers, out>>
    /\ UNCHANGED mvars

Returned(r) ==
    /\ res' = r
    /\ pc' = IF r.ok THEN "opened" ELSE "failed"
    /\ readers' = IF r.ok THEN <<r.reader>> ELSE <<>>

Open ==
    /\ pc = "written"
    /\ call' = [op |-> "open", tag |-> "None", bytes |-> file.bytes]
    /\ Returned(open(file))
    /\ UNCHANGED <<vals, codec, use_gcd, file, pristine, out>>
    /\ UNCHANGED mvars

\* a caller that has taken the outer unit off the region itself and passes the
\* remaining bytes with a tag of its own
OpenFromId(tag) ==
    /\ pc = "written" /\ file.readable /\ file.bytes # <<>>
    /\ call' = [op |-> "open_from_id", tag |-> tag, bytes |-> Tail(file.bytes)]
    /\ Returned(open_from_id(Tail(file.bytes), tag))
    /\ UNCHANGED <<vals, codec, use_gcd, file, pristine, out>>
    /\ UNCHANGED mvars

Called(op, t, k, idx, r) ==
    out' = [op |-> op, thread |-> t, k |-> k, idx |-> idx, ok |-> r.ok, val |-> r.val]

GetVal(t, k, idx) ==
    /\ pc = "opened" /\ k \in 1 .. Len(readers)
    /\ idx < num_vals(readers[k])
    /\ Called("get_val", t, k, idx, get_val(readers[k], idx))
    /\ UNCHANGED <<vals, codec, use_gcd, file, pristine, pc, call, res, readers>>
    /\ UNCHANGED mvars

MinValue(t, k) ==
    /\ pc = "opened" /\ k \in 1 .. Len(readers)
    /\ Called("min_value", t, k, 0, Val(min_value(readers[k])))
    /\ UNCHANGED <<vals, codec, use_gcd, file, pristine, pc, call, res, readers>>
    /\ UNCHANGED mvars

MaxValue(t, k) ==
    /\ pc = "opened" /\ k \in 1 .. Len(readers)
    /\ Called("max_value", t, k, 0, Val(max_value(readers[k])))
    /\ UNCHANGED <<vals, codec, use_gcd, file, pristine, pc, call, res, readers>>
    /\ UNCHANGED mvars

NumVals(t, k) ==
    /\ pc = "opened" /\ k \in 1 .. Len(readers)
    /\ Called("num_vals", t, k, 0, Val(num_vals(readers[k])))
    /\ UNCHANGED <<vals, codec, use_gcd, file, pristine, pc, call, res, readers>>
    /\ UNCHANGED mvars

Clone(t, k) ==
    /\ pc = "opened" /\ k \in 1 .. Len(readers)
    /\ Len(readers) < MaxReaders
    /\ readers' = Append(readers, clone(readers[k]))
    /\ out' = [op |-> "clone", thread |-> t, k |-> k, idx |-> 0, ok |-> TRUE, val |-> 0]
    /\ UNCHANGED <<vals, codec, use_gcd, file, pristine, pc, call, res>>
    /\ UNCHANGED mvars

Next ==
    \/ Serialize
    \/ \E pos \in 1 .. Len(file.bytes), u \in 0 .. MaxUnit : Overwrite(pos, u)
    \/ \E len \in 0 .. Len(file.bytes) : Truncate(len)
    \/ Unreadable
    \/ Open
    \/ \E tag \in Tags : OpenFromId(tag)
    \/ \E idx \in U64 : GetVal(1, 1, idx)
    \/ MinValue(1, 1)
    \/ MaxValue(1, 1)
    \/ NumVals(1, 1)

Spec == Init /\ [][Next]_vars

\* --------------------------------------- the in-memory construction path
InitFrom ==
    /\ vals \in SeqsUpTo(Item, MaxLen)
    /\ codec = "Bitpacked" /\ use_gcd = FALSE
    /\ file = FileSlice(TRUE, <<>>) /\ pristine = TRUE /\ pc = "init"
    /\ call = NoCall /\ res = NoRes /\ readers = <<>> /\ out = NoOut
    /\ MetaIdle

\* DynamicFastFieldReader::from(vals); the write pipeline picks the codec
From(c, g) ==
    /\ pc = "init"
    /\ codec' = c /\ use_gcd' = g
    /\ file' = FileSlice(TRUE, FastFieldsWriter_serialize(
                   [i \in 1 .. Len(vals) |-> to_u64(vals[i])], c, g))
    /\ call' = [op |-> "from", tag |-> "None", bytes |-> <<>>]
    /\ res' = from_vec(vals, c, g)
    /\ pc' = IF res'.ok THEN "opened" ELSE "panicked"
    /\ readers' = IF res'.ok THEN <<res'.reader>> ELSE <<>>
    /\ UNCHANGED <<vals, pristine, out>>
    /\ UNCHANGED mvars

NextFrom ==
    \/ \E c \in Codecs, g \in BOOLEAN : From(c, g)
    \/ \E idx \in U64 : GetVal(1, 1, idx)
    \/ NumVals(1, 1)

SpecFrom == InitFrom /\ [][NextFrom]_vars

\* ------------------------------------------- threads sharing one column
InitConc ==
    /\ vals \in SeqsUpTo(SampleItems, MaxSmallLen)
    /\ codec \in Codecs
    /\ use_gcd \in BOOLEAN
    /\ file = FileSlice(TRUE, FastFieldsWriter_serialize(
                  [i \in 1 .. Len(vals) |-> to_u64(vals[i])], codec, use_gcd))
    /\ pristine = TRUE
    /\ call = [op |-> "open", tag |-> "None", bytes |-> file.bytes]
    /\ res = open(file)
    /\ pc = "opened"
    /\ readers = <<res.reader>>
    /\ out = NoOut
    /\ MetaIdle

NextConc ==
    \E t \in Threads, k \in 1 .. MaxReaders :
        \/ \E idx \in U64 : GetVal(t, k, idx)
        \/ MinValue(t, k)
        \/ MaxValue(t, k)
        \/ NumVals(t, k)
        \/ Clone(t, k)

SpecConc == InitConc /\ [][NextConc]_vars

\* --------------------------------------------------- SegmentMeta calls
InitMeta ==
    /\ ReaderIdle
    /\ \E s \in SegmentIds : meta = new(s)
    /\ overflow_checks \in BOOLEAN
    /\ delete_called = FALSE
    /\ mlast = NoMeta
    /\ mout = NoNumDocs

SetMaxDoc(v) ==
    /\ meta' = set_max_doc(meta, v)
    /\ mlast' = [op |-> "set_max_doc", a |-> v, b |-> 0]
    /\ mout' = NoNumDocs
    /\ UNCHANGED <<overflow_checks, delete_called>>
    /\ UNCHANGED rvars

SetDeleteMeta(n, opstamp) ==
    /\ meta' = set_delete_meta(meta, n, opstamp)
    /\ delete_called' = TRUE
    /\ mlast' = [op |-> "set_delete_meta", a |-> n, b |-> opstamp]
    /\ mout' = NoNumDocs
    /\ UNCHANGED overflow_checks
    /\ UNCHANGED rvars

NumDocs ==
    /\ mout' = [called |-> TRUE, ok |-> num_docs(meta, overflow_checks).ok,
                val |-> num_docs(meta, overflow_checks).val]
    /\ UNCHANGED <<meta, overflow_checks, delete_called, mlast>>
    /\ UNCHANGED rvars

NextMeta ==
    \/ \E v \in U32 : SetMaxDoc(v)
    \/ \E n \in U32, opstamp \in Opstamps : SetDeleteMeta(n, opstamp)
    \/ NumDocs

SpecMeta == InitMeta /\ [][NextMeta]_vars

\* ------------------------------------------------------------------ claims
TagCodes == {BitpackedCode, LinearCode, BlockwiseLinearCode, GcdCode}
TagOfCode(code) == CHOOSE t \in Tags : to_code(t) = code
HasTag(bytes) == bytes # <<>> /\ Head(bytes) \in TagCodes
StartsWithGcd(bytes) == bytes # <<>> /\ Head(bytes) = GcdCode

GcdVariantOf(tag) ==
    CASE tag = "Bitpacked" -> "BitpackedGCD"
      [] tag = "Linear" -> "LinearGCD"
      [] tag = "BlockwiseLinear" -> "BlockwiseLinearGCD"

NothingReturned ==
    pc = "failed" /\ ~res.ok /\ res.reader = NoReader /\ readers = <<>>

\* C1: open_from_id(bytes, Gcd) on bytes whose nested tag is Gcd, and open(region)
\* on a region whose outer and inner tags are both Gcd, return a data-corruption
\* error and produce no reader.
C1_GcdInGcdRejected ==
    ( \/ call.op = "open_from_id" /\ call.tag = "Gcd" /\ StartsWithGcd(call.bytes)
      \/ /\ call.op = "open" /\ file.readable
         /\ StartsWithGcd(call.bytes) /\ StartsWithGcd(Tail(call.bytes)) )
    => (NothingReturned /\ res.err = "DataCorruption")

C1_Witness ==
    /\ call.op = "open" /\ file.readable
    /\ StartsWithGcd(call.bytes) /\ StartsWithGcd(Tail(call.bytes))
    /\ Len(call.bytes) > 2
    /\ pc = "failed"

\* C2: when open_from_id(bytes, tag) succeeds, the variant is fixed by the tags:
\* Bitpacked/Linear/BlockwiseLinear give the variant of that name built from bytes
\* unchanged; Gcd with an inner tag gives the GCD variant of the inner tag built
\* from the bytes after the inner tag.  No other pairing occurs.
C2_VariantByTag ==
    (call.op = "open_from_id" /\ pc = "opened") =>
        LET r == res.reader
            b == call.bytes
        IN /\ r.variant \in Variants
           /\ call.tag \in Codecs =>
                /\ r.variant = call.tag
                /\ r.wrapper.reader = Codec_open_from_bytes(call.tag, b).reader
                /\ r.wrapper.reader.kind = call.tag
           /\ call.tag = "Gcd" =>
                /\ HasTag(b) /\ Head(b) # GcdCode
                /\ r.variant = GcdVariantOf(TagOfCode(Head(b)))
                /\ r.wrapper.reader = open_gcd_from_bytes(TagOfCode(Head(b)), Tail(b)).reader
                /\ r.wrapper.reader.kind = "Gcd"
                /\ r.wrapper.reader.inner.kind = TagOfCode(Head(b))

C2_Witness ==
    /\ call.op = "open_from_id" /\ pc = "opened" /\ pristine
    /\ call.tag = "Gcd" /\ res.reader.variant = "LinearGCD"
    /\ out.op = "get_val"

\* C3: open(region) consumes exactly the leading outer tag and returns what
\* open_from_id(rest, tag) returns for the tag at the front of the region and the
\* bytes after it; it fails when no tag can be read there.
C3_OpenDelegates ==
    (call.op = "open" /\ file.readable) =>
        IF HasTag(call.bytes)
        THEN res = open_from_id(Tail(call.bytes), TagOfCode(Head(call.bytes)))
        ELSE NothingReturned

C3_Witness ==
    /\ call.op = "open" /\ file.readable /\ pc = "opened"
    /\ res.reader.variant = "BlockwiseLinearGCD"
    /\ num_vals(res.reader) > 0

\* the codec selected by tag cannot open bytes
PayloadCorrupt(tag, bytes) ==
    IF tag # "Gcd" THEN ~Codec_open_from_bytes(tag, bytes).ok
    ELSE IF ~HasTag(bytes) THEN TRUE
    ELSE IF Head(bytes) = GcdCode THEN TRUE
    ELSE ~open_gcd_from_bytes(TagOfCode(Head(bytes)), Tail(bytes)).ok

\* one of the data-corruption conditions holds of the constructor call made
CallCorrupt ==
    IF call.op = "open_from_id" THEN PayloadCorrupt(call.tag, call.bytes)
    ELSE IF ~file.readable THEN TRUE
    ELSE IF ~HasTag(call.bytes) THEN TRUE
    ELSE PayloadCorrupt(TagOfCode(Head(call.bytes)), Tail(call.bytes))

AllOrdinalsDecode(r) ==
    \A idx \in 0 .. (num_vals(r) - 1) : get_val(r, idx).ok

\* C4: every data-corruption condition (unreadable region, truncated or unrecognized
\* outer or inner tag, Gcd in Gcd, failure of the selected codec's open) makes
\* open/open_from_id fail with no reader; once a reader is returned, get_val below
\* num_vals(), min_value, max_value and num_vals do not fail.
C4_CorruptionFoundAtOpen ==
    /\ (call.op \in {"open", "open_from_id"} /\ CallCorrupt) => NothingReturned
    /\ pc = "failed" => NothingReturned
    /\ pc = "opened" =>
         /\ res.ok /\ readers # <<>>
         /\ AllOrdinalsDecode(res.reader)
    /\ out.op \in {"get_val", "min_value", "max_value", "num_vals"} => out.ok

C4_Witness ==
    /\ pc = "opened" /\ ~pristine
    /\ out.op = "get_val" /\ out.idx > 0 /\ out.ok
    /\ res.reader.variant = "Bitpacked"
    /\ Len(res.reader.wrapper.reader.data) > 0

\* C5: r = DynamicFastFieldReader::from(vals) has r.num_vals() = len(vals) and
\* r.get_val(i) = vals[i] for every i below len(vals), whichever codec and GCD
\* wrapping the write pipeline selects.
C5_RoundTrip ==
    /\ pc # "panicked"
    /\ pc = "opened" =>
         /\ num_vals(res.reader) = Len(vals)
         /\ \A i \in 1 .. Len(vals) : get_val(res.reader, i - 1) = Val(vals[i])
    /\ out.op = "get_val" => (out.ok /\ out.val = vals[out.idx + 1])
    /\ out.op = "num_vals" => out.val = Len(vals)

C5_Witness ==
    /\ pc = "opened" /\ call.op = "from"
    /\ res.reader.variant = "LinearGCD"
    /\ res.reader.wrapper.reader.gcd > 1
    /\ Len(res.reader.wrapper.reader.inner.data) > 0
    /\ out.op = "get_val" /\ out.idx = Len(vals) - 1

InBounds(r) ==
    \A idx \in 0 .. (num_vals(r) - 1) :
        LET v == get_val(r, idx) IN
        v.ok /\ min_value(r) <= v.val /\ v.val <= max_value(r)

\* C6 as stated: every reader that was opened successfully has
\* min_value() <= get_val(i) <= max_value() for every i below num_vals().
C6_BoundsOfEveryReader ==
    pc = "opened" => InBounds(res.reader)

\* the constructor was given a region exactly as the write pipeline produced it:
\* open on the region, or open_from_id on the bytes after its outer tag with that tag
WrittenColumnOpened ==
    /\ pc = "opened" /\ pristine
    /\ \/ call.op = "open"
       \/ call.op = "open_from_id" /\ to_code(call.tag) = Head(file.bytes)

\* C6 as amended: every reader that open or open_from_id returns for a region
\* exactly as the write pipeline produced it (all six variants) has
\* min_value() <= get_val(i) <= max_value() for every i below num_vals().
C6_BoundsOfWrittenColumn ==
    WrittenColumnOpened =>
        /\ InBounds(res.reader)
        /\ out.op = "get_val" =>
             (min_value(res.reader) <= out.val /\ out.val <= max_value(res.reader))

C6_Witness ==
    /\ WrittenColumnOpened /\ call.op = "open"
    /\ res.reader.variant = "BitpackedGCD"
    /\ res.reader.wrapper.reader.gcd > 1
    /\ min_value(res.reader) < 0 /\ max_value(res.reader) >= 0
    /\ out.op = "get_val" /\ out.idx > 0

\* C7: a reader is immutable after construction: whatever get_val, min_value,
\* max_value, num_vals and clone calls the threads make on the reader or its
\* clones, every live reader equals the one that was constructed, the shared bytes
\* are unchanged, and each call returns what it returns on the constructed reader.
C7_Immutable ==
    /\ \A k \in 1 .. Len(readers) : readers[k] = res.reader
    /\ file.bytes = call.bytes /\ file.readable
    /\ out.op = "get_val" =>
         /\ [ok |-> out.ok, val |-> out.val] = get_val(res.reader, out.idx)
         /\ out.val = vals[out.idx + 1]
    /\ out.op = "min_value" => out.val = min_value(res.reader)
    /\ out.op = "max_value" => out.val = max_value(res.reader)
    /\ out.op = "num_vals" => out.val = num_vals(res.reader)

C7_Witness ==
    /\ Len(readers) = MaxReaders
    /\ out.op = "get_val" /\ out.k = MaxReaders /\ out.thread = NumThreads
    /\ out.idx > 0

\* C8: num_docs() is max_doc() - num_deleted_docs() as a true u32 count, neither
\* wrapping nor panicking, with 0 <= num_docs() <= max_doc().
C8_NumDocsIsCount ==
    mout.called =>
        /\ mout.ok
        /\ mout.val = max_doc(meta) - num_deleted_docs(meta)
        /\ 0 <= mout.val /\ mout.val <= max_doc(meta)

\* C9: across successive set_delete_meta calls the opstamp returned by
\* delete_opstamp() never decreases.
C9_OpstampNonDecreasing ==
    [][(has_deletes(meta) /\ has_deletes(meta'))
          => delete_opstamp(meta')[1] >= delete_opstamp(meta)[1]]_vars

C10_State ==
    /\ has_deletes(meta) <=> delete_called
    /\ mlast.op = "new" =>
         /\ max_doc(meta) = 0 /\ num_deleted_docs(meta) = 0
         /\ ~has_deletes(meta) /\ delete_opstamp(meta) = None
         /\ num_docs(meta, overflow_checks) = Val(0)

C10_Step ==
    /\ id(meta') = id(meta)
    /\ has_deletes(meta) => has_deletes(meta')
    /\ mout'.called => meta' = meta
    /\ (~mout'.called /\ mlast'.op = "set_max_doc") =>
         /\ max_doc(meta') = mlast'.a
         /\ meta'.deletes = meta.deletes
    /\ (~mout'.called /\ mlast'.op = "set_delete_meta") =>
         /\ max_doc(meta') = max_doc(meta)
         /\ has_deletes(meta')
         /\ num_deleted_docs(meta') = mlast'.a
         /\ delete_opstamp(meta') = Some(mlast'.b)

\* C10: new(id) gives max_doc 0, no deletes and no opstamp; has_deletes() is true
\* exactly when set_delete_meta has been called and never returns to false;
\* set_delete_meta stores its arguments and changes only the delete information;
\* set_max_doc changes only max_doc; id() never changes.
C10_Frame == []C10_State /\ [][C10_Step]_vars

C10_Witness ==
    /\ delete_called /\ has_deletes(meta)
    /\ mlast.op = "set_max_doc" /\ max_doc(meta) > 0
    /\ num_deleted_docs(meta) > 0 /\ delete_opstamp(meta) = Some(MaxOpstamp)

====
